---- MODULE Spec2Model ----
(***************************************************************************)
(* Model of newsscraper/main_orchestrator.py: the run of the script from   *)
(* the clean-up of old output files to the final report, with the          *)
(* similarity clusterer, the token-budgeted batcher, the rate-limited      *)
(* dispatcher, the record assembler and the reporting stage.               *)
(*                                                                         *)
(* Also modelled: the two Playwright functions (url_resolver.run_resolver,  *)
(* fallback_scraper.run_fallback_scraper) as tasks under a semaphore, and  *)
(* the Scrapy crawl (ContentSpider.parse, FallbackUrlPipeline).            *)
(*                                                                         *)
(* Token counts are the real numbers of config.py; time is in whole        *)
(* seconds; similarities are in tenths (0.6 is 6).                          *)
(***************************************************************************)
EXTENDS Integers, Sequences, FiniteSets, TLC

(* ------------------------------ bounds -------------------------------- *)

\* The largest number of articles a run gathers.
MaxArticles == 3

\* Largest number of payloads given to the batcher on its own.
MaxPayloads == 5

\* Largest number of articles given to the clusterer on its own.
MaxClustered == 4

\* Largest number of batches given to the dispatcher on its own.
MaxBatches == 3

\* The largest number of URLs given to run_resolver or run_fallback_scraper.
MaxUrls == 3

\* Size of the semaphore that bounds the open pages.  config.py sets 20; the
\* model takes fewer permits than URLs so that tasks have to wait.
MAX_CONCURRENT_BROWSERS == 2

\* The largest number of URLs the spider is started with.
MaxResponses == 2

(* ------------------------- program constants -------------------------- *)

\* config.py
STORY_SIMILARITY_THRESHOLD == 6
LLM_MAX_TOKENS_PER_CALL == 50000
LLM_TPM_LIMIT == 250000
SELECTED_ENGINE == "gemini"

\* spiders/content_spyder.py
MIN_TEXT_LENGTH == 150

(* ------------------------------ inputs -------------------------------- *)

\* Values the cosine similarity of two articles takes (tenths).
SimChoices == {1, 6, 9}

\* Values len(encoding.encode(text_for_llm)) takes for a payload: one that
\* fits a call twice but not three times, one above the ceiling of a call and
\* one above the tokens-per-minute limit.
TokenChoices == {25000, 60000, 260000}

\* Token counts of payloads for the batcher on its own: four of 12,000 or two
\* of 25,000 stay within the ceiling of a call, 60,000 exceeds it alone.
BatchTokenChoices == {12000, 25000, 60000}

\* Token counts of payloads for the dispatcher on its own, each a batch of its
\* own: two of 130,000, or one of 60,000 and two of 130,000, exceed the
\* tokens-per-minute limit together; 260,000 exceeds it alone.
DispatchTokenChoices == {60000, 130000, 260000}

\* How far the clock advances between two readings of time.time().
ClockSteps == {0, 30, 61}

\* How long a call of the analysis engine takes.
CallDurations == {0, 30}

\* Content of an output file left by an earlier run.
StaleContent == << "stale" >>

VARIABLES
    pc,                \* position of the script
    articles_file,     \* output_articles.jsonl: [exists, content]
    stories_file,      \* output_stories.json:   [exists, content]
    all_scraped_data,  \* sequence of articles
    story_clusters,    \* sequence of buckets (each a sequence of articles)
    story_payloads,    \* sequence of [story_index, original_bucket]; the bucket
                       \* of a payload is story_clusters[original_bucket]
    num_tokens,        \* token count of each payload, as the tokenizer gave it
    list_of_batches,   \* sequence of [batch: sequence of payloads, tokens]
    batch_i,           \* number of loop iterations of the dispatcher begun
    clock,             \* last reading of time.time()
    request_history,   \* deque of [ts, tokens]
    tokens_in_window,
    all_llm_results,   \* story_index -> result
    final_articles,
    final_stories,
    \* history of the run, for stating the claims
    engine_calls,      \* batch numbers for which analyze_article was invoked, in order
    replies,           \* reply of the engine to each of these calls
    submitted,         \* every (ts, tokens) ever appended to request_history
    window_before,     \* [history, tokens] at the analysis call of the last batch
    selected_engine,   \* config.SELECTED_ENGINE
    embedding_calls,   \* number of calls of model.encode made by cluster_stories
    similarity_matrix, \* cluster_stories' local, << >> outside the call:
                       \* similarity of articles i < j (tenths)
    fetch,             \* locals of the running run_resolver or
                       \* run_fallback_scraper (<< >> outside the call):
                       \* [task_pc, semaphore, open_pages, final_urls,
                       \*  scraped_data, returned, fetched]
    crawl              \* state of the running Scrapy crawl (<< >> outside it):
                       \* [responses, in_flight, fallback_file, file_open,
                       \*  feed, processed, last_parse]

vars == << pc, articles_file, stories_file, all_scraped_data, story_clusters,
           story_payloads, num_tokens, list_of_batches, batch_i, clock,
           request_history, tokens_in_window, all_llm_results, final_articles,
           final_stories, engine_calls, replies, submitted, window_before,
           selected_engine, embedding_calls, similarity_matrix,
           fetch, crawl >>

\* The locals of the two Playwright functions.
task_pc == fetch.task_pc            \* position of each URL's task in its coroutine
semaphore == fetch.semaphore        \* value of the asyncio.Semaphore
open_pages == fetch.open_pages      \* tasks whose browser page is open
final_urls == fetch.final_urls      \* run_resolver's set of resolved URLs
scraped_data == fetch.scraped_data  \* run_fallback_scraper's list of page records
returned == fetch.returned          \* the list the function returned
fetched == fetch.fetched            \* per task, what Playwright did with its URL
                                    \* (<< >> until then)

\* The crawl: ContentSpider and FallbackUrlPipeline.
responses == crawl.responses         \* URLs whose response has not reached parse yet
in_flight == crawl.in_flight         \* items yielded by parse, not yet in the pipeline
fallback_file == crawl.fallback_file \* fallback_urls.txt: [exists, content]
file_open == crawl.file_open         \* the pipeline holds the file open
feed == crawl.feed                   \* items process_item returned, in order
processed == crawl.processed         \* every item given to process_item, in order
last_parse == crawl.last_parse       \* << [response, yielded] >> of the last parse

\* No Playwright function is running.
NoBrowser == fetch = << >>

\* No crawl is running.
NoCrawl == crawl = << >>

(* ------------------------------ helpers ------------------------------- *)

RECURSIVE SumSeq(_)
SumSeq(s) == IF s = << >> THEN 0 ELSE Head(s) + SumSeq(Tail(s))

RECURSIVE Flatten(_)
Flatten(ss) == IF ss = << >> THEN << >> ELSE Head(ss) \o Flatten(Tail(ss))

Range(s) == { s[k] : k \in DOMAIN s }

\* The article gathered at position k: a fresh article_id, and the fields the
\* scraper delivered with it.
Article(k) ==
    [ article_id    |-> k,
      full_text_len |-> IF k = 1 THEN 1 ELSE 2,
      published_at  |-> IF k = 1 THEN 0 ELSE 10 - k,   \* 0: no published_at
      title         |-> << "article", k >>,
      source_domain |-> IF k % 2 = 1 THEN 2 ELSE 1 ]   \* domains in sort order

(* ---------------------------- cluster_stories ------------------------- *)

Pairs(n) == { p \in (1..n) \X (1..n) : p[1] < p[2] }

MembersStrictlyAbove(i, n, visited, sim, threshold) ==
    SelectSeq([k \in 1..(n - i) |-> i + k],
              LAMBDA j : j \notin visited /\ sim[<< i, j >>] > threshold)

MembersIgnoringVisited(i, n, visited, sim, threshold) ==
    SelectSeq([k \in 1..(n - i) |-> i + k],
              LAMBDA j : sim[<< i, j >>] >= threshold)

\* Lines 66-69: the indices j > i the inner loop adds to the cluster seeded by i.
Members(i, n, visited, sim, threshold) ==
    SelectSeq([k \in 1..(n - i) |-> i + k],
              LAMBDA j : j \notin visited /\ sim[<< i, j >>] >= threshold)

RECURSIVE ClusterLoop(_, _, _, _, _, _)
ClusterLoop(i, visited, clusters, articles, sim, threshold) ==
    IF i > Len(articles) THEN clusters
    ELSE IF i \in visited
         THEN ClusterLoop(i + 1, visited, clusters, articles, sim, threshold)
         ELSE LET current_cluster_indices ==
                      << i >> \o Members(i, Len(articles), visited, sim, threshold)
                  cluster_articles ==
                      [k \in 1..Len(current_cluster_indices) |->
                          articles[current_cluster_indices[k]]]
              IN  ClusterLoop(i + 1, visited \cup Range(current_cluster_indices),
                              Append(clusters, cluster_articles),
                              articles, sim, threshold)

NeedsEmbeddingUnlessEmpty(articles) ==
    ~ (Len(articles) = 0)

\* Lines 49-57: the model is loaded and the corpus encoded unless the guard
\* `not articles or len(articles) < 2` returns early.
NeedsEmbedding(articles) ==
    ~ (Len(articles) = 0 \/ Len(articles) < 2)

cluster_stories(articles, sim, threshold) ==
    IF ~ NeedsEmbedding(articles)
    THEN [k \in 1..Len(articles) |-> << articles[k] >>]
    ELSE ClusterLoop(1, {}, << >>, articles, sim, threshold)


(* ------------------------ token-budgeted batcher ---------------------- *)

PayloadsCountedFromOne(clusters) ==
    [k \in 1..Len(clusters) |-> [story_index |-> k, original_bucket |-> k]]

\* Lines 129-132: story_index is enumerate's index; original_bucket refers to
\* the bucket, the list object at this place of story_clusters.
Payloads(clusters) ==
    [k \in 1..Len(clusters) |-> [story_index |-> k - 1, original_bucket |-> k]]

\* A batch as the list holds it: the tuple (current_batch, current_batch_tokens).
Emit(batches, current_batch, current_batch_tokens) ==
    Append(batches, [batch |-> current_batch, batch_tokens |-> current_batch_tokens])

FlushDropsLast(batches, current_batch, current_batch_tokens) ==
    batches

\* Lines 149-151: the final flush.
Flush(batches, current_batch, current_batch_tokens) ==
    IF current_batch # << >>
    THEN Emit(batches, current_batch, current_batch_tokens)
    ELSE batches

MustCloseAtCeiling(current_batch, current_batch_tokens, n, ceiling) ==
    current_batch # << >> /\ current_batch_tokens + n >= ceiling

MustCloseWhenAlreadyOver(current_batch, current_batch_tokens, n, ceiling) ==
    current_batch # << >> /\ current_batch_tokens > ceiling

\* Line 141: the current batch is closed before a payload of n tokens.
MustClose(current_batch, current_batch_tokens, n, ceiling) ==
    current_batch # << >> /\ current_batch_tokens + n > ceiling

RECURSIVE BatchLoopKeepsCount(_, _, _, _, _, _, _)
BatchLoopKeepsCount(k, payloads, toks, ceiling, batches, current_batch, current_batch_tokens) ==
    IF k > Len(payloads)
    THEN Flush(batches, current_batch, current_batch_tokens)
    ELSE IF MustClose(current_batch, current_batch_tokens, toks[k], ceiling)
         THEN BatchLoopKeepsCount(k + 1, payloads, toks, ceiling,
                                  Emit(batches, current_batch, current_batch_tokens),
                                  << payloads[k] >>, current_batch_tokens + toks[k])
         ELSE BatchLoopKeepsCount(k + 1, payloads, toks, ceiling, batches,
                                  Append(current_batch, payloads[k]),
                                  current_batch_tokens + toks[k])

\* Lines 139-151: the loop over story_payloads from payload k on, then the flush.
RECURSIVE BatchLoop(_, _, _, _, _, _, _)
BatchLoop(k, payloads, toks, ceiling, batches, current_batch, current_batch_tokens) ==
    IF k > Len(payloads)
    THEN Flush(batches, current_batch, current_batch_tokens)
    ELSE IF MustClose(current_batch, current_batch_tokens, toks[k], ceiling)
         THEN BatchLoop(k + 1, payloads, toks, ceiling,
                        Emit(batches, current_batch, current_batch_tokens),
                        << payloads[k] >>, toks[k])
         ELSE BatchLoop(k + 1, payloads, toks, ceiling, batches,
                        Append(current_batch, payloads[k]),
                        current_batch_tokens + toks[k])

Batcher(payloads, toks, ceiling) ==
    BatchLoop(1, payloads, toks, ceiling, << >>, << >>, 0)


(* ------------------------ rate-limited dispatcher --------------------- *)

\* A reading of time.time() made when the last reading was t.
ClockAfter(t) == { t + d : d \in ClockSteps }

\* The reading of time.time() made when analyze_article has returned.
CallReturns(now) == { now + d : d \in CallDurations }

EvictOnlyOldest(history, tokens, now) ==
    IF history # << >> /\ now - history[1].ts > 60
    THEN [history |-> Tail(history), tokens |-> tokens - history[1].tokens]
    ELSE [history |-> history, tokens |-> tokens]

RECURSIVE EvictKeepsCount(_, _, _)
EvictKeepsCount(history, tokens, now) ==
    IF history # << >> /\ now - history[1].ts > 60
    THEN EvictKeepsCount(Tail(history), tokens, now)
    ELSE [history |-> history, tokens |-> tokens]

\* while request_history and now - request_history[0][0] > 60: popleft.
RECURSIVE Evict(_, _, _)
Evict(history, tokens, now) ==
    IF history # << >> /\ now - history[1].ts > 60
    THEN Evict(Tail(history), tokens - history[1].tokens, now)
    ELSE [history |-> history, tokens |-> tokens]

\* What gemini_analysis_engine returns for a batch: the error object (no API
\* key, or the API call raised), the list made of response.parsed with one
\* result per story of the batch, or [] when response.parsed is not a list.
gemini_analysis_engine(batch_indexes) ==
    { [kind |-> "error", story_indexes |-> {}],
      [kind |-> "list", story_indexes |-> batch_indexes],
      [kind |-> "list", story_indexes |-> {}] }

\* mock_analysis_engine(article_text) is called with the keyword
\* batch_input_json: the TypeError is caught by analyze_article, which returns
\* the error object.
mock_analysis_engine(batch_indexes) ==
    { [kind |-> "error", story_indexes |-> {}] }

\* config.analyze_article(engine_name=config.SELECTED_ENGINE, ...).
analyze_article(batch_indexes) ==
    IF selected_engine = "mock"
    THEN mock_analysis_engine(batch_indexes)
    ELSE gemini_analysis_engine(batch_indexes)

\* A result object without the key canonical_title.
UntitledResult(s, batch_num) ==
    [story_index |-> s, call |-> batch_num]

\* The result object the call for batch batch_num gave for story_index s.
Result(s, batch_num) ==
    [story_index |-> s, canonical_title |-> << "llm", s >>, call |-> batch_num]

AfterReplyChargesAlways(history, tokens, results, reply, ts, b, batch_num) ==
    [history |-> Append(history, [ts |-> ts, tokens |-> b.batch_tokens]),
     tokens  |-> tokens + b.batch_tokens,
     results |-> [s \in reply.story_indexes |-> Result(s, batch_num)] @@ results]

\* Lines 179-185: the window, its sum and the result mapping after the reply.
AfterReply(history, tokens, results, reply, ts, b, batch_num) ==
    IF reply.kind = "list"
    THEN [history |-> Append(history, [ts |-> ts, tokens |-> b.batch_tokens]),
          tokens  |-> tokens + b.batch_tokens,
          results |-> [s \in reply.story_indexes |-> Result(s, batch_num)]
                          @@ results]
    ELSE [history |-> history, tokens |-> tokens, results |-> results]

\* Lines 174-187 for batch batch_num, entered at time now with the window
\* (history, tokens) the rate check left.
Analyze(batch_num, now, history, tokens) ==
    LET b == list_of_batches[batch_num]
        batch_indexes == { b.batch[k].story_index : k \in DOMAIN b.batch }
    IN  \E reply \in analyze_article(batch_indexes) :
        \E ts \in (IF reply.kind = "list" THEN CallReturns(now) ELSE {now}) :
            LET after == AfterReply(history, tokens, all_llm_results, reply, ts,
                                    b, batch_num)
            IN  /\ request_history' = after.history
                /\ tokens_in_window' = after.tokens
                /\ all_llm_results' = after.results
                /\ clock' = ts
                /\ engine_calls' = Append(engine_calls, batch_num)
                /\ replies' = Append(replies, reply)
                /\ submitted' = IF reply.kind = "list"
                                THEN Append(submitted,
                                            [ts |-> ts, tokens |-> b.batch_tokens])
                                ELSE submitted
                /\ window_before' = [history |-> history, tokens |-> tokens]

LoopPc(batch_num) ==
    IF batch_num = Len(list_of_batches) THEN "assemble" ELSE "dispatch"

(* --------------------------- record assembler ------------------------- *)

RECURSIVE InsertByLenTiesLast(_, _)
InsertByLenTiesLast(sorted, a) ==
    IF sorted = << >> THEN << a >>
    ELSE IF Head(sorted).full_text_len > a.full_text_len
         THEN << Head(sorted) >> \o InsertByLenTiesLast(Tail(sorted), a)
         ELSE << a >> \o sorted

\* list.sort(key=len(full_text), reverse=True): stable, longest first.
RECURSIVE InsertByLen(_, _)
InsertByLen(sorted, a) ==
    IF sorted = << >> THEN << a >>
    ELSE IF Head(sorted).full_text_len >= a.full_text_len
         THEN << Head(sorted) >> \o InsertByLen(Tail(sorted), a)
         ELSE << a >> \o sorted

RECURSIVE SortByLenDesc(_)
SortByLenDesc(bucket) ==
    IF bucket = << >> THEN << >>
    ELSE InsertByLen(SortByLenDesc(SubSeq(bucket, 1, Len(bucket) - 1)),
                     bucket[Len(bucket)])

Min(S) == CHOOSE x \in S : \A y \in S : x <= y

RECURSIVE SortedSeqDescending(_)
SortedSeqDescending(S) ==
    IF S = {} THEN << >>
    ELSE SortedSeqDescending(S \ {Min(S)}) \o << Min(S) >>

\* sorted(list(set(...))).
RECURSIVE SortedSeq(_)
SortedSeq(S) == IF S = {} THEN << >> ELSE << Min(S) >> \o SortedSeq(S \ {Min(S)})

earliest_pub_date_unfiltered(story_bucket) ==
    Min({ story_bucket[k].published_at : k \in DOMAIN story_bucket })

\* Line 198: min of the published_at values that are set, default None (0).
earliest_pub_date(story_bucket) ==
    LET dates == { story_bucket[k].published_at : k \in DOMAIN story_bucket } \ {0}
    IN  IF dates = {} THEN 0 ELSE Min(dates)

CanonicalTitleOfArticle(analysis_result, representative_article) ==
    representative_article.title

\* Line 201: analysis_result.get("canonical_title", representative_article['title']).
CanonicalTitle(analysis_result, representative_article) ==
    IF "canonical_title" \in DOMAIN analysis_result
    THEN analysis_result.canonical_title
    ELSE representative_article.title

\* Lines 196-207: the record of a bucket that has a result; the bucket is the
\* sorted one. analysis stands for summary, sentiment, key_entities and
\* suggested_category, the fields copied from the result.
StoryRecord(story_id, analysis_result, story_bucket) ==
    LET representative_article == story_bucket[1]
    IN  [ story_id        |-> story_id,
          canonical_title |-> CanonicalTitle(analysis_result, representative_article),
          analysis        |-> analysis_result,
          first_seen_at   |-> earliest_pub_date(story_bucket),
          article_ids     |-> [k \in DOMAIN story_bucket |-> story_bucket[k].article_id],
          source_domains  |-> SortedSeq({ story_bucket[k].source_domain :
                                             k \in DOMAIN story_bucket }),
          article_count   |-> Len(story_bucket) ]

AddStoryFirst(stories, story_record) == << story_record >> \o stories

\* Line 208: final_stories.append(story_record).
AddStory(stories, story_record) == Append(stories, story_record)

ExtendArticlesWithFirst(articles, story_bucket) ==
    articles \o << story_bucket[1] >>

\* Line 193: final_articles.extend(story_bucket).
ExtendArticles(articles, story_bucket) == articles \o story_bucket

RECURSIVE AssembleLoopExtendsSorted(_, _, _, _, _, _)
AssembleLoopExtendsSorted(k, payloads, results, clusters, articles, stories) ==
    IF k > Len(payloads)
    THEN [clusters |-> clusters, articles |-> articles, stories |-> stories]
    ELSE LET story_index == payloads[k].story_index
             bucket_ref == payloads[k].original_bucket
             story_bucket == clusters[bucket_ref]
         IN  IF story_index \in DOMAIN results
             THEN LET sorted == SortByLenDesc(story_bucket)
                  IN  AssembleLoopExtendsSorted(k + 1, payloads, results,
                          [clusters EXCEPT ![bucket_ref] = sorted],
                          ExtendArticles(articles, sorted),
                          AddStory(stories,
                                   StoryRecord(Len(stories) + 1,
                                               results[story_index], sorted)))
             ELSE AssembleLoopExtendsSorted(k + 1, payloads, results, clusters,
                          ExtendArticles(articles, story_bucket), stories)

\* Lines 191-208 from payload k on: [clusters, articles, stories].
RECURSIVE AssembleLoop(_, _, _, _, _, _)
AssembleLoop(k, payloads, results, clusters, articles, stories) ==
    IF k > Len(payloads)
    THEN [clusters |-> clusters, articles |-> articles, stories |-> stories]
    ELSE LET story_index == payloads[k].story_index
             bucket_ref == payloads[k].original_bucket
             story_bucket == clusters[bucket_ref]
         IN  IF story_index \in DOMAIN results
             THEN LET sorted == SortByLenDesc(story_bucket)
                  IN  AssembleLoop(k + 1, payloads, results,
                                   [clusters EXCEPT ![bucket_ref] = sorted],
                                   ExtendArticles(articles, story_bucket),
                                   AddStory(stories,
                                            StoryRecord(Len(stories) + 1,
                                                        results[story_index], sorted)))
             ELSE AssembleLoop(k + 1, payloads, results, clusters,
                               ExtendArticles(articles, story_bucket), stories)

(* ------------------------------- Init --------------------------------- *)

FileStates == { [exists |-> FALSE, content |-> << >>],
                [exists |-> TRUE, content |-> StaleContent] }

\* The state when the script starts, with engine_name the configured engine.
Start(engine_name) ==
    /\ NoBrowser
    /\ NoCrawl
    /\ pc = "start"
    /\ articles_file \in FileStates
    /\ stories_file \in FileStates
    /\ all_scraped_data = << >>
    /\ story_clusters = << >>
    /\ story_payloads = << >>
    /\ num_tokens = << >>
    /\ list_of_batches = << >>
    /\ batch_i = 0
    /\ clock = 0
    /\ request_history = << >>
    /\ tokens_in_window = 0
    /\ all_llm_results = << >>
    /\ final_articles = << >>
    /\ final_stories = << >>
    /\ engine_calls = << >>
    /\ replies = << >>
    /\ submitted = << >>
    /\ window_before = [history |-> << >>, tokens |-> 0]
    /\ selected_engine = engine_name
    /\ similarity_matrix = << >>
    /\ embedding_calls = 0

Init == Start(SELECTED_ENGINE)

\* The run with SELECTED_ENGINE = 'mock'.
InitMock == Start("mock")

(* ------------------------------ actions ------------------------------- *)

CleanupKeepsFiles ==
    /\ UNCHANGED << fetch, crawl >>
    /\ UNCHANGED << selected_engine, embedding_calls, similarity_matrix >>
    /\ pc = "start"
    /\ pc' = "gather"
    /\ UNCHANGED << articles_file, stories_file, all_scraped_data, story_clusters,
                    story_payloads, num_tokens, list_of_batches, batch_i, clock,
                    request_history, tokens_in_window, all_llm_results,
                    final_articles, final_stories, engine_calls, replies,
                    submitted, window_before >>

\* Clean up old files.
Cleanup ==
    /\ UNCHANGED << fetch, crawl >>
    /\ UNCHANGED << selected_engine, embedding_calls, similarity_matrix >>
    /\ pc = "start"
    /\ articles_file' = [exists |-> FALSE, content |-> << >>]
    /\ stories_file' = [exists |-> FALSE, content |-> << >>]
    /\ pc' = "gather"
    /\ UNCHANGED << all_scraped_data, story_clusters, story_payloads, num_tokens,
                    list_of_batches, batch_i, clock, request_history,
                    tokens_in_window, all_llm_results, final_articles,
                    final_stories, engine_calls, replies, submitted, window_before >>

\* Stages 1 and 2 with no resolved URL: exit().
GatherExit ==
    /\ UNCHANGED << fetch, crawl >>
    /\ UNCHANGED << selected_engine, embedding_calls, similarity_matrix >>
    /\ pc = "gather"
    /\ pc' = "exited"
    /\ UNCHANGED << articles_file, stories_file, all_scraped_data, story_clusters,
                    story_payloads, num_tokens, list_of_batches, batch_i, clock,
                    request_history, tokens_in_window, all_llm_results,
                    final_articles, final_stories, engine_calls, replies,
                    submitted, window_before >>

\* Stages 1 and 2 with resolved URLs: the scraped articles, each given its id.
Gather ==
    /\ UNCHANGED << fetch, crawl >>
    /\ UNCHANGED << selected_engine, embedding_calls, similarity_matrix >>
    /\ pc = "gather"
    /\ \E n \in 0..MaxArticles :
          all_scraped_data' = [k \in 1..n |-> Article(k)]
    /\ pc' = "cluster"
    /\ UNCHANGED << articles_file, stories_file, story_clusters, story_payloads,
                    num_tokens, list_of_batches, batch_i, clock, request_history,
                    tokens_in_window, all_llm_results, final_articles,
                    final_stories, engine_calls, replies, submitted, window_before >>

ClusterEmptyAsOneBucket ==
    /\ UNCHANGED << fetch, crawl >>
    /\ pc = "cluster"
    /\ IF all_scraped_data # << >>
       THEN /\ \E sim \in [Pairs(Len(all_scraped_data)) -> SimChoices] :
                  story_clusters' = cluster_stories(all_scraped_data, sim,
                                                    STORY_SIMILARITY_THRESHOLD)
            /\ embedding_calls' = IF NeedsEmbedding(all_scraped_data)
                                  THEN embedding_calls + 1 ELSE embedding_calls
       ELSE /\ story_clusters' = << << >> >>
            /\ embedding_calls' = embedding_calls
    /\ UNCHANGED << selected_engine, similarity_matrix >>
    /\ pc' = "batch"
    /\ UNCHANGED << articles_file, stories_file, all_scraped_data, story_payloads,
                    num_tokens, list_of_batches, batch_i, clock, request_history,
                    tokens_in_window, all_llm_results, final_articles,
                    final_stories, engine_calls, replies, submitted, window_before >>

\* Stage 3.
Cluster ==
    /\ UNCHANGED << fetch, crawl >>
    /\ pc = "cluster"
    /\ IF all_scraped_data # << >>
       THEN /\ \E sim \in [Pairs(Len(all_scraped_data)) -> SimChoices] :
                  story_clusters' = cluster_stories(all_scraped_data, sim,
                                                    STORY_SIMILARITY_THRESHOLD)
            /\ embedding_calls' = IF NeedsEmbedding(all_scraped_data)
                                  THEN embedding_calls + 1 ELSE embedding_calls
       ELSE /\ story_clusters' = << >>
            /\ embedding_calls' = embedding_calls
    /\ UNCHANGED << selected_engine, similarity_matrix >>
    /\ pc' = "batch"
    /\ UNCHANGED << articles_file, stories_file, all_scraped_data, story_payloads,
                    num_tokens, list_of_batches, batch_i, clock, request_history,
                    tokens_in_window, all_llm_results, final_articles,
                    final_stories, engine_calls, replies, submitted, window_before >>

\* Stage 4 is skipped when there is no cluster.
SkipStage4 ==
    /\ UNCHANGED << fetch, crawl >>
    /\ UNCHANGED << selected_engine, embedding_calls, similarity_matrix >>
    /\ pc = "batch"
    /\ story_clusters = << >>
    /\ pc' = "report"
    /\ UNCHANGED << articles_file, stories_file, all_scraped_data, story_clusters,
                    story_payloads, num_tokens, list_of_batches, batch_i, clock,
                    request_history, tokens_in_window, all_llm_results,
                    final_articles, final_stories, engine_calls, replies,
                    submitted, window_before >>

\* Stage 4, payload construction and batching, with toks[k] the length of the
\* encoding of payload k; the dispatcher's state is set up.
BuildBatchesWith(toks) ==
    /\ UNCHANGED << fetch, crawl >>
    /\ UNCHANGED << selected_engine, embedding_calls, similarity_matrix >>
    /\ pc = "batch"
    /\ story_clusters # << >>
    /\ story_payloads' = Payloads(story_clusters)
    /\ num_tokens' = toks
    /\ list_of_batches' = Batcher(Payloads(story_clusters), toks,
                                  LLM_MAX_TOKENS_PER_CALL)
    /\ all_llm_results' = << >>
    /\ request_history' = << >>
    /\ tokens_in_window' = 0
    /\ pc' = "dispatch"
    /\ UNCHANGED << articles_file, stories_file, all_scraped_data, story_clusters,
                    batch_i, clock, final_articles, final_stories, engine_calls,
                    replies, submitted, window_before >>

BuildBatches ==
    \E toks \in [1..Len(story_clusters) -> TokenChoices] : BuildBatchesWith(toks)

\* Stage 4 when encoding.encode raises for payload failing (or get_encoding
\* raises, before the first payload): the exception leaves the script. The
\* batches closed before it are in list_of_batches, the current one is not.
BuildBatchesTokenizerFails ==
    /\ UNCHANGED << fetch, crawl >>
    /\ UNCHANGED << selected_engine, embedding_calls, similarity_matrix >>
    /\ pc = "batch"
    /\ story_clusters # << >>
    /\ story_payloads' = Payloads(story_clusters)
    /\ \E failing \in 1..Len(story_clusters) :
       \E toks \in [1..(failing - 1) -> TokenChoices] :
          LET flushed == Batcher(SubSeq(Payloads(story_clusters), 1, failing - 1),
                                 toks, LLM_MAX_TOKENS_PER_CALL)
          IN  /\ num_tokens' = toks
              /\ list_of_batches' = IF flushed = << >> THEN << >>
                                    ELSE SubSeq(flushed, 1, Len(flushed) - 1)
    /\ all_llm_results' = << >>
    /\ pc' = "tokenizer_failed"
    /\ UNCHANGED << articles_file, stories_file, all_scraped_data, story_clusters,
                    batch_i, clock, request_history, tokens_in_window,
                    final_articles, final_stories, engine_calls, replies,
                    submitted, window_before >>

\* One iteration of the dispatch loop in which the rate check passes.
DispatchDirect ==
    /\ UNCHANGED << fetch, crawl >>
    /\ UNCHANGED << selected_engine, embedding_calls, similarity_matrix >>
    /\ pc = "dispatch"
    /\ batch_i < Len(list_of_batches)
    /\ LET batch_num == batch_i + 1
           b == list_of_batches[batch_num]
       IN  \E now \in ClockAfter(clock) :
              LET w == Evict(request_history, tokens_in_window, now)
              IN  /\ ~ (w.tokens + b.batch_tokens > LLM_TPM_LIMIT)
                  /\ Analyze(batch_num, now, w.history, w.tokens)
    /\ batch_i' = batch_i + 1
    /\ pc' = LoopPc(batch_i + 1)
    /\ UNCHANGED << articles_file, stories_file, all_scraped_data, story_clusters,
                    story_payloads, num_tokens, list_of_batches, final_articles,
                    final_stories >>

\* One iteration in which the limit would be exceeded: sleep, evict again, go on.
DispatchAfterWait ==
    /\ UNCHANGED << fetch, crawl >>
    /\ UNCHANGED << selected_engine, embedding_calls, similarity_matrix >>
    /\ pc = "dispatch"
    /\ batch_i < Len(list_of_batches)
    /\ LET batch_num == batch_i + 1
           b == list_of_batches[batch_num]
       IN  \E now \in ClockAfter(clock) :
              LET w == Evict(request_history, tokens_in_window, now)
              IN  /\ w.tokens + b.batch_tokens > LLM_TPM_LIMIT
                  /\ w.history # << >>
                  /\ LET time_to_wait == 60 - (now - w.history[1].ts) + 1
                     IN  \E now2 \in ClockAfter(now + time_to_wait) :
                            LET w2 == Evict(w.history, w.tokens, now2)
                            IN  Analyze(batch_num, now2, w2.history, w2.tokens)
    /\ batch_i' = batch_i + 1
    /\ pc' = LoopPc(batch_i + 1)
    /\ UNCHANGED << articles_file, stories_file, all_scraped_data, story_clusters,
                    story_payloads, num_tokens, list_of_batches, final_articles,
                    final_stories >>

\* One iteration in which the limit would be exceeded and the window is empty:
\* request_history[0] raises IndexError outside the try, and the script ends.
DispatchIndexError ==
    /\ UNCHANGED << fetch, crawl >>
    /\ UNCHANGED << selected_engine, embedding_calls, similarity_matrix >>
    /\ pc = "dispatch"
    /\ batch_i < Len(list_of_batches)
    /\ LET b == list_of_batches[batch_i + 1]
       IN  \E now \in ClockAfter(clock) :
              LET w == Evict(request_history, tokens_in_window, now)
              IN  /\ w.tokens + b.batch_tokens > LLM_TPM_LIMIT
                  /\ w.history = << >>
                  /\ request_history' = w.history
                  /\ tokens_in_window' = w.tokens
                  /\ clock' = now
    /\ batch_i' = batch_i + 1
    /\ pc' = "crashed"
    /\ UNCHANGED << articles_file, stories_file, all_scraped_data, story_clusters,
                    story_payloads, num_tokens, list_of_batches, all_llm_results,
                    final_articles, final_stories, engine_calls, replies,
                    submitted, window_before >>

\* Lines 189-209.
Assemble ==
    /\ UNCHANGED << fetch, crawl >>
    /\ UNCHANGED << selected_engine, embedding_calls, similarity_matrix >>
    /\ pc = "assemble"
    /\ IF all_llm_results # << >>
       THEN LET a == AssembleLoop(1, story_payloads, all_llm_results,
                                  story_clusters, << >>, << >>)
            IN  /\ story_clusters' = a.clusters
                /\ final_articles' = a.articles
                /\ final_stories' = a.stories
       ELSE UNCHANGED << story_clusters, final_articles, final_stories >>
    /\ pc' = "report"
    /\ UNCHANGED << articles_file, stories_file, all_scraped_data, story_payloads,
                    num_tokens, list_of_batches, batch_i, clock, request_history,
                    tokens_in_window, all_llm_results, engine_calls, replies,
                    submitted, window_before >>

ReportWritesAlways ==
    /\ UNCHANGED << fetch, crawl >>
    /\ UNCHANGED << selected_engine, embedding_calls, similarity_matrix >>
    /\ pc = "report"
    /\ articles_file' = [exists |-> TRUE, content |-> final_articles]
    /\ stories_file' = [exists |-> TRUE, content |-> final_stories]
    /\ pc' = "done"
    /\ UNCHANGED << all_scraped_data, story_clusters, story_payloads, num_tokens,
                    list_of_batches, batch_i, clock, request_history,
                    tokens_in_window, all_llm_results, final_articles,
                    final_stories, engine_calls, replies, submitted, window_before >>

\* Stage 5, lines 213-221.
Report ==
    /\ UNCHANGED << fetch, crawl >>
    /\ UNCHANGED << selected_engine, embedding_calls, similarity_matrix >>
    /\ pc = "report"
    /\ IF final_stories # << >>
       THEN /\ articles_file' = [exists |-> TRUE, content |-> final_articles]
            /\ stories_file' = [exists |-> TRUE, content |-> final_stories]
       ELSE UNCHANGED << articles_file, stories_file >>
    /\ pc' = "done"
    /\ UNCHANGED << all_scraped_data, story_clusters, story_payloads, num_tokens,
                    list_of_batches, batch_i, clock, request_history,
                    tokens_in_window, all_llm_results, final_articles,
                    final_stories, engine_calls, replies, submitted, window_before >>

Next ==
    \/ Cleanup
    \/ GatherExit
    \/ Gather
    \/ Cluster
    \/ SkipStage4
    \/ BuildBatches
    \/ BuildBatchesTokenizerFails
    \/ DispatchDirect
    \/ DispatchAfterWait
    \/ DispatchIndexError
    \/ Assemble
    \/ Report

Spec == Init /\ [][Next]_vars

\* The steps of the run with the mock engine: no call is ever recorded in the
\* window, so the dispatcher never has a request to wait for.
NextMock ==
    \/ Cleanup
    \/ GatherExit
    \/ Gather
    \/ Cluster
    \/ SkipStage4
    \/ BuildBatches
    \/ BuildBatchesTokenizerFails
    \/ DispatchDirect
    \/ DispatchIndexError
    \/ Assemble
    \/ Report

SpecMock == InitMock /\ [][NextMock]_vars

\* The batcher on its own: the script has reached stage 4 with up to
\* MaxPayloads stories of one article each.
InitBatch ==
    /\ NoBrowser
    /\ NoCrawl
    /\ pc = "batch"
    /\ articles_file = [exists |-> FALSE, content |-> << >>]
    /\ stories_file = [exists |-> FALSE, content |-> << >>]
    /\ \E n \in 1..MaxPayloads :
          /\ all_scraped_data = [k \in 1..n |-> Article(k)]
          /\ story_clusters = [k \in 1..n |-> << Article(k) >>]
          /\ embedding_calls = IF n < 2 THEN 0 ELSE 1
    /\ story_payloads = << >>
    /\ num_tokens = << >>
    /\ list_of_batches = << >>
    /\ batch_i = 0
    /\ clock = 0
    /\ request_history = << >>
    /\ tokens_in_window = 0
    /\ all_llm_results = << >>
    /\ final_articles = << >>
    /\ final_stories = << >>
    /\ engine_calls = << >>
    /\ replies = << >>
    /\ submitted = << >>
    /\ window_before = [history |-> << >>, tokens |-> 0]
    /\ selected_engine = SELECTED_ENGINE
    /\ similarity_matrix = << >>

\* Stage 4 up to the batches, for payloads of which several fit one call.
BuildBatchesOfSmallPayloads ==
    \E toks \in [1..Len(story_clusters) -> BatchTokenChoices] :
        BuildBatchesWith(toks)

NextBatch == BuildBatchesOfSmallPayloads

SpecBatch == InitBatch /\ [][NextBatch]_vars

\* The clusterer on its own: cluster_stories was called with 2 to MaxClustered
\* articles and has passed its guard.
InitCluster ==
    /\ NoBrowser
    /\ NoCrawl
    /\ pc = "encode"
    /\ articles_file = [exists |-> FALSE, content |-> << >>]
    /\ stories_file = [exists |-> FALSE, content |-> << >>]
    /\ \E n \in 2..MaxClustered : all_scraped_data = [k \in 1..n |-> Article(k)]
    /\ story_clusters = << >>
    /\ story_payloads = << >>
    /\ num_tokens = << >>
    /\ list_of_batches = << >>
    /\ batch_i = 0
    /\ clock = 0
    /\ request_history = << >>
    /\ tokens_in_window = 0
    /\ all_llm_results = << >>
    /\ final_articles = << >>
    /\ final_stories = << >>
    /\ engine_calls = << >>
    /\ replies = << >>
    /\ submitted = << >>
    /\ window_before = [history |-> << >>, tokens |-> 0]
    /\ selected_engine = SELECTED_ENGINE
    /\ embedding_calls = 0
    /\ similarity_matrix = << >>

\* Lines 51-57: the corpus is encoded and the similarity matrix computed.
Encode ==
    /\ UNCHANGED << fetch, crawl >>
    /\ pc = "encode"
    /\ similarity_matrix' \in [Pairs(Len(all_scraped_data)) -> SimChoices]
    /\ embedding_calls' = embedding_calls + 1
    /\ pc' = "group"
    /\ UNCHANGED << articles_file, stories_file, all_scraped_data, story_clusters,
                    story_payloads, num_tokens, list_of_batches, batch_i, clock,
                    request_history, tokens_in_window, all_llm_results,
                    final_articles, final_stories, engine_calls, replies,
                    submitted, window_before, selected_engine >>

\* Lines 58-72: the grouping loops, up to `return clusters`.
Group ==
    /\ UNCHANGED << fetch, crawl >>
    /\ pc = "group"
    /\ story_clusters' = ClusterLoop(1, {}, << >>, all_scraped_data,
                                     similarity_matrix, STORY_SIMILARITY_THRESHOLD)
    /\ pc' = "clustered"
    /\ UNCHANGED << articles_file, stories_file, all_scraped_data, story_payloads,
                    num_tokens, list_of_batches, batch_i, clock, request_history,
                    tokens_in_window, all_llm_results, final_articles,
                    final_stories, engine_calls, replies, submitted,
                    window_before, selected_engine, embedding_calls,
                    similarity_matrix >>

NextCluster ==
    \/ Encode
    \/ Group

SpecCluster == InitCluster /\ [][NextCluster]_vars

\* The dispatcher on its own, statement by statement: the script has built 1
\* to MaxBatches batches of one story each and stands before the loop.
InitDispatch ==
    /\ NoBrowser
    /\ NoCrawl
    /\ pc = "loop_top"
    /\ articles_file = [exists |-> FALSE, content |-> << >>]
    /\ stories_file = [exists |-> FALSE, content |-> << >>]
    /\ \E n \in 1..MaxBatches :
       \E toks \in [1..n -> DispatchTokenChoices] :
          /\ all_scraped_data = [k \in 1..n |-> Article(k)]
          /\ story_clusters = [k \in 1..n |-> << Article(k) >>]
          /\ embedding_calls = IF n < 2 THEN 0 ELSE 1
          /\ num_tokens = toks
    /\ story_payloads = Payloads(story_clusters)
    /\ list_of_batches = Batcher(story_payloads, num_tokens, LLM_MAX_TOKENS_PER_CALL)
    /\ batch_i = 0
    /\ clock = 0
    /\ request_history = << >>
    /\ tokens_in_window = 0
    /\ all_llm_results = << >>
    /\ final_articles = << >>
    /\ final_stories = << >>
    /\ engine_calls = << >>
    /\ replies = << >>
    /\ submitted = << >>
    /\ window_before = [history |-> << >>, tokens |-> 0]
    /\ selected_engine = SELECTED_ENGINE
    /\ similarity_matrix = << >>

\* Lines 159-164: the next batch is taken, the clock read, the window evicted.
ReadClockAndEvict ==
    /\ UNCHANGED << fetch, crawl >>
    /\ pc = "loop_top"
    /\ batch_i < Len(list_of_batches)
    /\ \E now \in ClockAfter(clock) :
          LET w == Evict(request_history, tokens_in_window, now)
          IN  /\ clock' = now
              /\ request_history' = w.history
              /\ tokens_in_window' = w.tokens
    /\ batch_i' = batch_i + 1
    /\ pc' = "limit_check"
    /\ UNCHANGED << articles_file, stories_file, all_scraped_data, story_clusters,
                    story_payloads, num_tokens, list_of_batches, all_llm_results,
                    final_articles, final_stories, engine_calls, replies,
                    submitted, window_before, selected_engine, embedding_calls,
                    similarity_matrix >>

\* Line 165, condition false.
LimitNotExceeded ==
    /\ UNCHANGED << fetch, crawl >>
    /\ pc = "limit_check"
    /\ ~ (tokens_in_window + list_of_batches[batch_i].batch_tokens > LLM_TPM_LIMIT)
    /\ pc' = "call"
    /\ UNCHANGED << articles_file, stories_file, all_scraped_data, story_clusters,
                    story_payloads, num_tokens, list_of_batches, batch_i, clock,
                    request_history, tokens_in_window, all_llm_results,
                    final_articles, final_stories, engine_calls, replies,
                    submitted, window_before, selected_engine, embedding_calls,
                    similarity_matrix >>

\* Lines 165-172, condition true and a request in the window: sleep, read the
\* clock, evict.
WaitForOldest ==
    /\ UNCHANGED << fetch, crawl >>
    /\ pc = "limit_check"
    /\ tokens_in_window + list_of_batches[batch_i].batch_tokens > LLM_TPM_LIMIT
    /\ request_history # << >>
    /\ LET time_to_wait == 60 - (clock - request_history[1].ts) + 1
       IN  \E now \in ClockAfter(clock + time_to_wait) :
              LET w == Evict(request_history, tokens_in_window, now)
              IN  /\ clock' = now
                  /\ request_history' = w.history
                  /\ tokens_in_window' = w.tokens
    /\ pc' = "call"
    /\ UNCHANGED << articles_file, stories_file, all_scraped_data, story_clusters,
                    story_payloads, num_tokens, list_of_batches, batch_i,
                    all_llm_results, final_articles, final_stories, engine_calls,
                    replies, submitted, window_before, selected_engine,
                    embedding_calls, similarity_matrix >>

\* Lines 165-166, condition true and the window empty: request_history[0]
\* raises IndexError, outside the try.
ReadOldestOfEmptyWindow ==
    /\ UNCHANGED << fetch, crawl >>
    /\ pc = "limit_check"
    /\ tokens_in_window + list_of_batches[batch_i].batch_tokens > LLM_TPM_LIMIT
    /\ request_history = << >>
    /\ pc' = "crashed"
    /\ UNCHANGED << articles_file, stories_file, all_scraped_data, story_clusters,
                    story_payloads, num_tokens, list_of_batches, batch_i, clock,
                    request_history, tokens_in_window, all_llm_results,
                    final_articles, final_stories, engine_calls, replies,
                    submitted, window_before, selected_engine, embedding_calls,
                    similarity_matrix >>

\* Lines 174-187: the analysis call and the handling of its reply.
CallEngine ==
    /\ UNCHANGED << fetch, crawl >>
    /\ pc = "call"
    /\ Analyze(batch_i, clock, request_history, tokens_in_window)
    /\ pc' = IF batch_i = Len(list_of_batches) THEN "assemble" ELSE "loop_top"
    /\ UNCHANGED << articles_file, stories_file, all_scraped_data, story_clusters,
                    story_payloads, num_tokens, list_of_batches, batch_i,
                    final_articles, final_stories, selected_engine,
                    embedding_calls, similarity_matrix >>

NextDispatch ==
    \/ ReadClockAndEvict
    \/ LimitNotExceeded
    \/ WaitForOldest
    \/ ReadOldestOfEmptyWindow
    \/ CallEngine

SpecDispatch == InitDispatch /\ [][NextDispatch]_vars

\* Lengths of full_text for the assembler on its own.
TextLengths == {1, 2}

\* What the dispatch of a batch of one story left in the result mapping:
\* a result with canonical_title, a result without it, or nothing.
Outcomes == {"titled", "untitled", "error"}

\* The assembler on its own: the script has left the dispatch loop. Each story
\* was a batch of its own (60,000 tokens each), dispatched at time 0.
InitAssemble ==
    /\ NoBrowser
    /\ NoCrawl
    /\ pc = "assemble"
    /\ articles_file = [exists |-> FALSE, content |-> << >>]
    /\ stories_file = [exists |-> FALSE, content |-> << >>]
    /\ \E n \in 1..MaxArticles :
       \E lens \in [1..n -> TextLengths] :
       \E sim \in [Pairs(n) -> {1, 9}] :
          /\ all_scraped_data =
                 [k \in 1..n |-> [Article(k) EXCEPT !.full_text_len = lens[k]]]
          /\ story_clusters = cluster_stories(all_scraped_data, sim,
                                              STORY_SIMILARITY_THRESHOLD)
          /\ embedding_calls = IF NeedsEmbedding(all_scraped_data) THEN 1 ELSE 0
    /\ story_payloads = Payloads(story_clusters)
    /\ num_tokens = [k \in DOMAIN story_clusters |-> 60000]
    /\ list_of_batches = Batcher(story_payloads, num_tokens, LLM_MAX_TOKENS_PER_CALL)
    /\ batch_i = Len(list_of_batches)
    /\ clock = 0
    /\ engine_calls = [b \in DOMAIN list_of_batches |-> b]
    /\ \E outcome \in [DOMAIN list_of_batches -> Outcomes] :
          LET done == SelectSeq(engine_calls, LAMBDA b : outcome[b] # "error")
              sent == [k \in DOMAIN done |-> [ts |-> 0, tokens |-> 60000]]
              last == Len(list_of_batches)
          IN  /\ replies = [b \in DOMAIN list_of_batches |->
                               IF outcome[b] = "error"
                               THEN [kind |-> "error", story_indexes |-> {}]
                               ELSE [kind |-> "list", story_indexes |-> {b - 1}]]
              /\ all_llm_results =
                     [s \in { b - 1 : b \in Range(done) } |->
                         IF outcome[s + 1] = "titled"
                         THEN Result(s, s + 1) ELSE UntitledResult(s, s + 1)]
              /\ request_history = sent
              /\ submitted = sent
              /\ tokens_in_window = SumSeq([k \in DOMAIN sent |-> sent[k].tokens])
              /\ window_before =
                     IF outcome[last] = "error"
                     THEN [history |-> sent, tokens |-> tokens_in_window]
                     ELSE [history |-> SubSeq(sent, 1, Len(sent) - 1),
                           tokens  |-> tokens_in_window - 60000]
    /\ final_articles = << >>
    /\ final_stories = << >>
    /\ selected_engine = SELECTED_ENGINE
    /\ similarity_matrix = << >>

NextAssemble ==
    \/ Assemble
    \/ Report

SpecAssemble == InitAssemble /\ [][NextAssemble]_vars

(* ------- url_resolver.run_resolver, fallback_scraper.run_fallback_scraper *)

\* A function that returns None or a value is modelled as returning << >> or
\* << value >>: `if x: xs.add(x)` adds the elements of the sequence.

\* What Playwright does with a Google News URL: the navigation times out,
\* raises another exception, or ends on a publisher's URL.  Two Google URLs
\* can end on the same publisher's URL.
ResolveResults == {"PlaywrightTimeoutError", "Exception", "https://a", "https://b"}

\* What Playwright does with a fallback URL: a time-out, another exception,
\* or a page whose main content has `len` characters.
ScrapeResults ==
    { [raised |-> "PlaywrightTimeoutError", len |-> 0],
      [raised |-> "Exception", len |-> 0],
      [raised |-> "none", len |-> 0],
      [raised |-> "none", len |-> 149],
      [raised |-> "none", len |-> 150] }

\* resolve_url: the final URL, or None after either exception.
resolve_url(result) ==
    IF result \in {"PlaywrightTimeoutError", "Exception"}
    THEN << >>
    ELSE << result >>

\* scrape_single_page: the page record, or None after an exception or for a
\* text of fewer than 150 characters.
scrape_single_page(url, result) ==
    IF result.raised # "none" \/ result.len = 0 \/ result.len < 150
    THEN << >>
    ELSE << [url |-> url, title |-> << "title", url >>, published_at |-> "None",
             full_text |-> result.len, source_domain |-> << "netloc", url >>] >>

\* Semaphore.locked(): no permit is left.
lockedNever(value) == FALSE

locked(value) == value = 0

\* asyncio.gather(*tasks) is over when every task has finished.
gather_done(pcs) == \A t \in DOMAIN pcs : pcs[t] = "done"

\* list(a_set): the elements in some order, each once.
ListsOf(S) ==
    { l \in [1..Cardinality(S) -> S] : \A x \in S : \E k \in DOMAIN l : l[k] = x }

\* The script as it calls the function at `position`, with the output
\* files of earlier runs removed.
AtStage(position) ==
    /\ pc = position
    /\ articles_file = [exists |-> FALSE, content |-> << >>]
    /\ stories_file = [exists |-> FALSE, content |-> << >>]
    /\ all_scraped_data = << >>
    /\ story_clusters = << >>
    /\ story_payloads = << >>
    /\ num_tokens = << >>
    /\ list_of_batches = << >>
    /\ batch_i = 0
    /\ clock = 0
    /\ request_history = << >>
    /\ tokens_in_window = 0
    /\ all_llm_results = << >>
    /\ final_articles = << >>
    /\ final_stories = << >>
    /\ engine_calls = << >>
    /\ replies = << >>
    /\ submitted = << >>
    /\ window_before = [history |-> << >>, tokens |-> 0]
    /\ selected_engine = SELECTED_ENGINE
    /\ similarity_matrix = << >>
    /\ embedding_calls = 0

main_vars == << articles_file, stories_file, all_scraped_data, story_clusters,
                story_payloads, num_tokens, list_of_batches, batch_i, clock,
                request_history, tokens_in_window, all_llm_results,
                final_articles, final_stories, engine_calls, replies,
                submitted, window_before, selected_engine, embedding_calls,
                similarity_matrix >>

\* Either function at its `await asyncio.gather(*tasks)`: the semaphore and
\* the browser exist and one task per URL has been created.
InitFetch ==
    /\ \E position \in {"run_resolver", "run_fallback_scraper"} : AtStage(position)
    /\ NoCrawl
    /\ \E n \in 0..MaxUrls :
          fetch = [task_pc |-> [t \in 1..n |-> "waiting"],
                   semaphore |-> MAX_CONCURRENT_BROWSERS,
                   open_pages |-> {},
                   final_urls |-> {},
                   scraped_data |-> << >>,
                   returned |-> << >>,
                   fetched |-> [t \in 1..n |-> << >>]]

Fetching == pc \in {"run_resolver", "run_fallback_scraper"}

\* `async with semaphore:` entered by task t.
Acquire(t) ==
    /\ Fetching
    /\ task_pc[t] = "waiting"
    /\ ~ locked(semaphore)
    /\ fetch' = [fetch EXCEPT !.semaphore = @ - 1,
                              !.task_pc[t] = "new_page"]
    /\ UNCHANGED << pc, main_vars, crawl >>

\* `page = await browser.new_page(...)`.
NewPage(t) ==
    /\ Fetching
    /\ task_pc[t] = "new_page"
    /\ fetch' = [fetch EXCEPT !.open_pages = @ \cup {t},
                              !.task_pc[t] = IF pc = "run_resolver"
                                             THEN "route" ELSE "fetch"]
    /\ UNCHANGED << pc, main_vars, crawl >>

\* run_resolver only: `await page.route(...)`.
Route(t) ==
    /\ pc = "run_resolver"
    /\ task_pc[t] = "route"
    /\ fetch' = [fetch EXCEPT !.task_pc[t] = "fetch"]
    /\ UNCHANGED << pc, main_vars, crawl >>

\* `resolved = await resolve_url(page, url)` and `if resolved:
\* final_urls.add(resolved)`.
Resolve(t) ==
    /\ pc = "run_resolver"
    /\ task_pc[t] = "fetch"
    /\ \E result \in ResolveResults :
          fetch' = [fetch EXCEPT !.final_urls = @ \cup Range(resolve_url(result)),
                                 !.fetched[t] = << result >>,
                                 !.task_pc[t] = "close"]
    /\ UNCHANGED << pc, main_vars, crawl >>

\* `data = await scrape_single_page(page, url)` and `if data:
\* scraped_data.append(data)`.
Scrape(t) ==
    /\ pc = "run_fallback_scraper"
    /\ task_pc[t] = "fetch"
    /\ \E result \in ScrapeResults :
          fetch' = [fetch EXCEPT !.scraped_data = @ \o scrape_single_page(t, result),
                                 !.fetched[t] = << result >>,
                                 !.task_pc[t] = "close"]
    /\ UNCHANGED << pc, main_vars, crawl >>

\* `await page.close()`, then the end of the `async with` block, which
\* releases the semaphore without another await.
ClosePage(t) ==
    /\ Fetching
    /\ task_pc[t] = "close"
    /\ fetch' = [fetch EXCEPT !.open_pages = @ \ {t},
                              !.semaphore = @ + 1,
                              !.task_pc[t] = "done"]
    /\ UNCHANGED << pc, main_vars, crawl >>

\* run_resolver after the gather: `await browser.close()` and
\* `return list(final_urls)`.
ReturnResolved ==
    /\ pc = "run_resolver"
    /\ gather_done(task_pc)
    /\ \E l \in ListsOf(final_urls) : fetch' = [fetch EXCEPT !.returned = l]
    /\ pc' = "resolved"
    /\ UNCHANGED << main_vars, crawl >>

\* run_fallback_scraper after the gather: `await browser.close()` and
\* `return scraped_data`.
ReturnScraped ==
    /\ pc = "run_fallback_scraper"
    /\ gather_done(task_pc)
    /\ fetch' = [fetch EXCEPT !.returned = scraped_data]
    /\ pc' = "scraped"
    /\ UNCHANGED << main_vars, crawl >>

NextFetch ==
    \/ \E t \in DOMAIN task_pc : Acquire(t)
    \/ \E t \in DOMAIN task_pc : NewPage(t)
    \/ \E t \in DOMAIN task_pc : Route(t)
    \/ \E t \in DOMAIN task_pc : Resolve(t)
    \/ \E t \in DOMAIN task_pc : Scrape(t)
    \/ \E t \in DOMAIN task_pc : ClosePage(t)
    \/ ReturnResolved
    \/ ReturnScraped

SpecFetch == InitFetch /\ [][NextFetch]_vars

(* ---------- the Scrapy crawl: ContentSpider and FallbackUrlPipeline ---- *)

\* The k-th line of resolved_urls.txt.
Url(k) == << "url", k >>

\* fallback_urls.txt as an earlier crawl may have left it.
FallbackFileStates == { [exists |-> FALSE, content |-> << >>],
                        [exists |-> TRUE, content |-> << Url(0) >>] }

\* What newspaper makes of a piece of HTML: download or parse raises, or the
\* article text has `len` characters.
Extractions == { [raised |-> TRUE, len |-> 0],
                 [raised |-> FALSE, len |-> 0],
                 [raised |-> FALSE, len |-> 149],
                 [raised |-> FALSE, len |-> 150] }

\* The responses the engine can hand to parse for a URL: 403 is let through
\* by handle_httpstatus_list; `container` tells whether PRECISION_SELECTORS
\* match, `precision` and `general` what newspaper extracts from the
\* container and from the whole page, `publish_date` is None (<< >>) or a date.
Responses(url) ==
    { r \in [url : {url}, status : {200, 403}, container : BOOLEAN,
             precision : Extractions, general : Extractions,
             publish_date : {<< >>, << 7 >>}] :
        ~ r.container => r.precision = [raised |-> TRUE, len |-> 0] }

\* datetime.isoformat().
isoformat(d) == << "iso", d >>

\* _extract_with_newspaper without the check of the text length.
_extract_any_length(origin, extraction, response) ==
    IF extraction.raised
    THEN << >>
    ELSE << [text |-> [from |-> origin, len |-> extraction.len],
             title |-> << "title", response.url >>,
             publish_date |-> response.publish_date] >>

\* _extract_with_newspaper: the article, or None when newspaper raises or
\* the text is empty or shorter than MIN_TEXT_LENGTH.  The text is kept as
\* the HTML it was taken from and its length.
_extract_with_newspaper(origin, extraction, response) ==
    IF extraction.raised \/ extraction.len = 0 \/ extraction.len < MIN_TEXT_LENGTH
    THEN << >>
    ELSE << [text |-> [from |-> origin, len |-> extraction.len],
             title |-> << "title", response.url >>,
             publish_date |-> response.publish_date] >>

\* ContentSpider.parse: the items it yields for a response.
parse(response) ==
    IF response.status = 403
    THEN << [failed_url |-> response.url, reason |-> "403 Forbidden"] >>
    ELSE LET precise == IF response.container
                        THEN _extract_with_newspaper("container", response.precision,
                                                     response)
                        ELSE << >>
             article == IF precise = << >>
                        THEN _extract_with_newspaper("page", response.general,
                                                     response)
                        ELSE precise
         IN  IF article # << >>
             THEN << [url |-> response.url,
                      title |-> article[1].title,
                      published_at |-> [k \in DOMAIN article[1].publish_date |->
                                           isoformat(article[1].publish_date[k])],
                      full_text |-> article[1].text,
                      source_domain |-> << "domain", response.url >>] >>
             ELSE << [failed_url |-> response.url, reason |-> "Extraction Failed"] >>

\* FallbackUrlPipeline.open_spider that leaves an old file in place.
open_spider_appending(file) == [exists |-> TRUE, content |-> file.content]

\* FallbackUrlPipeline.open_spider: the old file is removed and a new one
\* opened for appending.
open_spider(file) == [exists |-> TRUE, content |-> << >>]

\* s without its k-th element.
Without(s, k) == [j \in 1..(Len(s) - 1) |-> IF j < k THEN s[j] ELSE s[j + 1]]

\* `scrapy crawl content_spider` has started: the spider holds the URLs of
\* resolved_urls.txt, the pipeline is not open yet.
InitCrawl ==
    /\ AtStage("open_spider")
    /\ NoBrowser
    /\ \E n \in 1..MaxResponses, file \in FallbackFileStates :
          crawl = [responses |-> { Url(k) : k \in 1..n },
                   in_flight |-> << >>,
                   fallback_file |-> file,
                   file_open |-> FALSE,
                   feed |-> << >>,
                   processed |-> << >>,
                   last_parse |-> << >>]

\* FallbackUrlPipeline.open_spider.
OpenSpider ==
    /\ pc = "open_spider"
    /\ crawl' = [crawl EXCEPT !.fallback_file = open_spider(@),
                              !.file_open = TRUE]
    /\ pc' = "crawl"
    /\ UNCHANGED << main_vars, fetch >>

\* A response reaches ContentSpider.parse; what parse yields goes to the
\* item pipeline.
Parse ==
    /\ pc = "crawl"
    /\ \E url \in responses :
          \E response \in Responses(url) :
             crawl' = [crawl EXCEPT
                         !.responses = @ \ {url},
                         !.in_flight = @ \o parse(response),
                         !.last_parse = << [response |-> response,
                                            yielded |-> parse(response)] >>]
    /\ UNCHANGED << pc, main_vars, fetch >>

\* FallbackUrlPipeline.process_item for one of the yielded items, where the
\* feed export gets the item that is returned.
ProcessItem ==
    /\ pc = "crawl"
    /\ \E k \in DOMAIN in_flight :
          LET item == in_flight[k] IN
          IF "failed_url" \in DOMAIN item
          THEN crawl' = [crawl EXCEPT
                           !.in_flight = Without(@, k),
                           !.processed = Append(@, item),
                           !.fallback_file.content = Append(@, item.failed_url)]
          ELSE crawl' = [crawl EXCEPT
                           !.in_flight = Without(@, k),
                           !.processed = Append(@, item),
                           !.feed = Append(@, item)]
    /\ UNCHANGED << pc, main_vars, fetch >>

\* FallbackUrlPipeline.close_spider, once the engine is idle.
CloseSpider ==
    /\ pc = "crawl"
    /\ responses = {}
    /\ in_flight = << >>
    /\ crawl' = [crawl EXCEPT !.file_open = FALSE]
    /\ pc' = "closed"
    /\ UNCHANGED << main_vars, fetch >>

NextCrawl ==
    \/ OpenSpider
    \/ Parse
    \/ ProcessItem
    \/ CloseSpider

SpecCrawl == InitCrawl /\ [][NextCrawl]_vars


(* ------------------------------ claims -------------------------------- *)

\* The batches are built.
Batched == pc \in {"dispatch", "assemble", "report", "done", "crashed"}

\* The dispatch loop is over: left normally, or by an exception.
LoopOver == pc \in {"assemble", "report", "done", "crashed"}

\* The loop was left normally.
Dispatched == pc \in {"assemble", "report", "done"}

BatchIndexes(batch_num) ==
    { list_of_batches[batch_num].batch[k].story_index :
          k \in DOMAIN list_of_batches[batch_num].batch }

LastReply == replies[Len(replies)]

\* Tokens of the successful submissions recorded in the 60 seconds that end
\* with submission k.
WindowSumAt(k) ==
    SumSeq([j \in DOMAIN submitted |->
               IF /\ submitted[j].ts <= submitted[k].ts
                  /\ submitted[k].ts - submitted[j].ts < 60
               THEN submitted[j].tokens ELSE 0])

\* C1. Rate compliance: the token counts of the successful submissions whose
\* recorded timestamps lie within any trailing 60-second window never sum to
\* more than LLM_TPM_LIMIT.
C1_RateCompliance ==
    \A k \in DOMAIN submitted : WindowSumAt(k) <= LLM_TPM_LIMIT

\* C2. Batch coverage and ordering: the payload lists of the emitted batches,
\* concatenated in emission order, are the sequence story_payloads.
C2_BatchCoverage ==
    Batched =>
        Flatten([b \in DOMAIN list_of_batches |-> list_of_batches[b].batch])
            = story_payloads

C2_Witness ==
    /\ pc = "dispatch"
    /\ Len(list_of_batches) >= 2
    /\ \E b \in DOMAIN list_of_batches : Len(list_of_batches[b].batch) >= 2

\* C3. Token ceiling: a batch of more than one payload has at most
\* LLM_MAX_TOKENS_PER_CALL tokens, and a payload that is itself above the
\* ceiling is the only payload of exactly one batch, whose token count is the
\* payload's.
C3_TokenCeiling ==
    Batched =>
        /\ \A b \in DOMAIN list_of_batches :
              Len(list_of_batches[b].batch) > 1
                  => list_of_batches[b].batch_tokens <= LLM_MAX_TOKENS_PER_CALL
        /\ \A k \in DOMAIN story_payloads :
              num_tokens[k] > LLM_MAX_TOKENS_PER_CALL =>
                  /\ \E b \in DOMAIN list_of_batches :
                        /\ list_of_batches[b].batch = << story_payloads[k] >>
                        /\ list_of_batches[b].batch_tokens = num_tokens[k]
                  /\ Cardinality({ b \in DOMAIN list_of_batches :
                                     story_payloads[k] \in Range(list_of_batches[b].batch) })
                         = 1

C3_Witness ==
    /\ pc = "dispatch"
    /\ \E b \in DOMAIN list_of_batches :
          /\ Len(list_of_batches[b].batch) = 2
          /\ list_of_batches[b].batch_tokens = LLM_MAX_TOKENS_PER_CALL
    /\ \E b \in DOMAIN list_of_batches :
          /\ Len(list_of_batches[b].batch) = 1
          /\ list_of_batches[b].batch_tokens > LLM_MAX_TOKENS_PER_CALL

\* C4. Partition: the buckets cluster_stories returns are non-empty and
\* pairwise disjoint, and together hold each input article exactly once.
C4_Partition ==
    pc \notin {"start", "gather", "cluster", "exited"} =>
        /\ \A c \in DOMAIN story_clusters : story_clusters[c] # << >>
        /\ \A c, d \in DOMAIN story_clusters :
              c # d => Range(story_clusters[c]) \cap Range(story_clusters[d]) = {}
        /\ UNION { Range(story_clusters[c]) : c \in DOMAIN story_clusters }
              = Range(all_scraped_data)
        /\ Len(Flatten(story_clusters)) = Len(all_scraped_data)

C4_Witness ==
    /\ pc = "batch"
    /\ Len(all_scraped_data) = 3
    /\ Len(story_clusters) = 2
    /\ Len(story_clusters[1]) = 2
    /\ story_clusters[1][2].article_id = 3

\* C5. Per-batch failure isolation: when the analysis call of a batch returns
\* an error object, no exception ends the dispatch loop and every later batch
\* is attempted.
C5_FailureIsolation ==
    LoopOver =>
        \A k \in DOMAIN replies :
            replies[k].kind = "error" =>
                /\ pc # "crashed"
                /\ \A j \in (engine_calls[k] + 1)..Len(list_of_batches) :
                      j \in Range(engine_calls)

\* C6. Articles are always persisted: a run that scraped at least one article
\* ends with every article exactly once in final_articles and in the written
\* article file.
C6_ArticlesPersisted ==
    (pc = "done" /\ all_scraped_data # << >>) =>
        /\ Len(final_articles) = Len(all_scraped_data)
        /\ Range(final_articles) = Range(all_scraped_data)
        /\ articles_file.exists
        /\ articles_file.content = final_articles

\* C7. A skipped batch does not consume rate budget: after an iteration whose
\* analysis call failed, the window and its running sum are what they were at
\* the call.
C7_SkippedBatchKeepsWindow ==
    ( /\ pc \in {"dispatch", "assemble"}
      /\ batch_i >= 1
      /\ Len(engine_calls) = batch_i
      /\ LastReply.kind = "error" ) =>
        /\ request_history = window_before.history
        /\ tokens_in_window = window_before.tokens

C7_Witness ==
    /\ pc = "dispatch"
    /\ batch_i >= 2
    /\ Len(engine_calls) = batch_i
    /\ LastReply.kind = "error"
    /\ window_before.history # << >>
    /\ request_history = window_before.history
    /\ tokens_in_window = window_before.tokens

\* C8. Result-mapping contents: after dispatch the mapping has an entry for
\* story_index s exactly if s belongs to a batch whose call succeeded.
C8_ResultMapping ==
    Dispatched =>
        DOMAIN all_llm_results
            = UNION { BatchIndexes(engine_calls[k]) :
                          k \in { c \in DOMAIN replies : replies[c].kind = "list" } }

\* C9. Strict ordering without retry: the engine is invoked exactly once for
\* each batch, in the batches' order.
C9_OncePerBatchInOrder ==
    LoopOver => engine_calls = [k \in 1..Len(list_of_batches) |-> k]

\* C10. The story file is written only when final_stories is non-empty, and
\* then it holds exactly final_stories.
C10_StoryFileOnlyWithRecords ==
    (pc # "start" /\ stories_file.exists) =>
        /\ final_stories # << >>
        /\ stories_file.content = final_stories

C10_Witness ==
    /\ pc = "done"
    /\ stories_file.exists
    /\ Len(stories_file.content) >= 1
    /\ Len(final_stories) < Len(story_payloads)

\* The articles are gathered: stages 1 and 2 are over and the script goes on.
Gathered == pc \notin {"start", "gather", "exited"}

\* C15. Empty input: a run that gathered no article has no cluster, payload or
\* batch, never ends in an exception, calls neither the embedding model nor
\* the analysis engine, ends with empty article and story lists, and leaves no
\* output file behind; until it is done it can always take its next step.
C15_EmptyInputIsEmptyResult ==
    (Gathered /\ all_scraped_data = << >>) =>
        /\ pc \in {"cluster", "batch", "report", "done"}
        /\ (pc # "cluster" => story_clusters = << >>)
        /\ story_payloads = << >>
        /\ list_of_batches = << >>
        /\ engine_calls = << >>
        /\ embedding_calls = 0
        /\ final_articles = << >>
        /\ final_stories = << >>
        /\ ~ articles_file.exists
        /\ ~ stories_file.exists
        /\ (pc # "done" => ENABLED Next)

\* A run without articles has reached its end.
C15_Witness ==
    /\ pc = "done"
    /\ all_scraped_data = << >>
    /\ engine_calls = << >>

\* C16. Tokenizer failure: once the tokenizer has raised, the run is over (no
\* step follows), no batch was or is dispatched to the engine, no record was
\* assembled, and neither the article file nor the story file exists.
C16_TokenizerFailureStops ==
    pc = "tokenizer_failed" =>
        /\ engine_calls = << >>
        /\ all_llm_results = << >>
        /\ final_articles = << >>
        /\ final_stories = << >>
        /\ ~ articles_file.exists
        /\ ~ stories_file.exists
        /\ ~ ENABLED Next

\* The tokenizer has raised after a batch was already closed.
C16_Witness ==
    /\ pc = "tokenizer_failed"
    /\ list_of_batches # << >>
    /\ engine_calls = << >>

\* The ids of the articles of a bucket.
BucketIds(story_bucket) ==
    { story_bucket[k].article_id : k \in DOMAIN story_bucket }

\* C18. story_index as join key: the payloads' indexes are the zero-based
\* positions of their buckets, hence pairwise distinct; the batches hold the
\* payloads with these indexes unchanged, every result is filed under the
\* index of a payload of the batch that was sent, and every record is built
\* from the bucket at the position its result is filed under.
C18_StoryIndexJoinKey ==
    /\ \A k \in DOMAIN story_payloads :
          /\ story_payloads[k].story_index = k - 1
          /\ story_payloads[k].original_bucket = k
    /\ \A j, k \in DOMAIN story_payloads :
          story_payloads[j].story_index = story_payloads[k].story_index => j = k
    /\ Batched =>
          Flatten([b \in DOMAIN list_of_batches |-> list_of_batches[b].batch])
              = story_payloads
    /\ \A i \in DOMAIN all_llm_results :
          /\ all_llm_results[i].story_index = i
          /\ i \in BatchIndexes(all_llm_results[i].call)
    /\ \A r \in DOMAIN final_stories :
          LET i == final_stories[r].analysis.story_index
          IN  /\ i + 1 \in DOMAIN story_clusters
              /\ BucketIds(story_clusters[i + 1]) = Range(final_stories[r].article_ids)

\* A record was built for the third bucket from a result filed under index 2,
\* sent in a batch that held another payload as well.
C18_Witness ==
    /\ pc = "done"
    /\ \E r \in DOMAIN final_stories :
          /\ final_stories[r].analysis.story_index = 2
          /\ Len(list_of_batches[final_stories[r].analysis.call].batch) > 1
          /\ BucketIds(story_clusters[3]) = Range(final_stories[r].article_ids)

\* The clustering stage is over.
Clustered == Gathered /\ pc # "cluster"

\* C19. Clusterer edge case: with fewer than 2 articles the buckets are one
\* singleton per article, in input order (none for no article), and the
\* embedding model was not called.
C19_FewerThanTwoArticles ==
    /\ cluster_stories(<< >>, << >>, STORY_SIMILARITY_THRESHOLD) = << >>
    /\ (Clustered /\ Len(all_scraped_data) < 2) =>
          /\ story_clusters = [k \in DOMAIN all_scraped_data |->
                                  << all_scraped_data[k] >>]
          /\ embedding_calls = 0

\* One article was clustered into its singleton bucket without an embedding.
C19_Witness ==
    /\ pc = "batch"
    /\ Len(all_scraped_data) = 1
    /\ story_clusters = << << Article(1) >> >>
    /\ embedding_calls = 0

\* C17. Mock engine conformance: every reply of the analysis call is a list
\* with one result for each story of the batch that was sent.
C17_MockConformance ==
    \A c \in DOMAIN replies :
        /\ replies[c].kind = "list"
        /\ replies[c].story_indexes = BatchIndexes(engine_calls[c])

\* The token count of the payload at place k of batch b.
TokensOf(b, k) == num_tokens[list_of_batches[b].batch[k].story_index + 1]

\* The token counts of the payloads of batch b before place k.
TokensBefore(b, k) == SumSeq([j \in 1..(k - 1) |-> TokensOf(b, j)])

\* C20. Greedy closing rule: a batch ends before a payload exactly when it is
\* non-empty and the payload would take it above the ceiling C. So the token
\* count of a batch plus that of the first payload of the next batch is above
\* C, and every payload that is not the first of its batch fitted under C
\* with those before it; 5 payloads of 12,000 tokens give batches of sizes
\* [4, 1] with token sums [48000, 12000].
C20_GreedyClosingRule ==
    Batched =>
        /\ \A b \in DOMAIN list_of_batches :
              /\ list_of_batches[b].batch # << >>
              /\ b < Len(list_of_batches) =>
                    list_of_batches[b].batch_tokens + TokensOf(b + 1, 1)
                        > LLM_MAX_TOKENS_PER_CALL
              /\ \A k \in DOMAIN list_of_batches[b].batch :
                    k > 1 => TokensBefore(b, k) + TokensOf(b, k)
                                 <= LLM_MAX_TOKENS_PER_CALL
        /\ num_tokens = [k \in 1..5 |-> 12000] =>
              /\ [b \in DOMAIN list_of_batches |-> Len(list_of_batches[b].batch)]
                     = << 4, 1 >>
              /\ [b \in DOMAIN list_of_batches |-> list_of_batches[b].batch_tokens]
                     = << 48000, 12000 >>

\* Five payloads of 12,000 tokens were batched.
C20_Witness ==
    /\ pc = "dispatch"
    /\ num_tokens = [k \in 1..5 |-> 12000]
    /\ Len(list_of_batches) = 2

\* The assembler has run.
Assembled == pc \in {"report", "done"}

\* The payloads whose story_index has a result, in payload order.
PayloadsWithResult ==
    SelectSeq(story_payloads, LAMBDA p : p.story_index \in DOMAIN all_llm_results)

\* C11. StoryRecord existence: after assembly there is exactly one record for
\* each payload whose story_index has a result and none for the others, and
\* the records stand in payload order, each with the result of its payload
\* and the articles of its payload's bucket.
C11_RecordPerResult ==
    Assembled =>
        /\ Len(final_stories) = Len(PayloadsWithResult)
        /\ \A r \in DOMAIN final_stories :
              LET p == PayloadsWithResult[r]
              IN  /\ final_stories[r].analysis = all_llm_results[p.story_index]
                  /\ Range(final_stories[r].article_ids)
                         = BucketIds(story_clusters[p.original_bucket])

\* Two records were assembled, in payload order, and a payload without a
\* result has none.
C11_Witness ==
    /\ pc = "done"
    /\ Len(final_stories) = 2
    /\ Len(story_payloads) = 3
    /\ final_stories[1].analysis.story_index < final_stories[2].analysis.story_index

\* The published_at values of a bucket that are set.
PublishedDates(story_bucket) ==
    { story_bucket[k].published_at : k \in DOMAIN story_bucket } \ {0}

\* C12. first_seen_at: the record's first_seen_at is the least published_at
\* that is set among the articles of its bucket, and null (0) when none is
\* set; the bucket of articles 1, 2 and 3, with the dates [null, 8, 7], gives 7.
C12_FirstSeenAt ==
    \A r \in DOMAIN final_stories :
        LET dates == PublishedDates(
                         story_clusters[final_stories[r].analysis.story_index + 1])
            first == final_stories[r].first_seen_at
        IN  /\ dates = {} => first = 0
            /\ dates # {} => first \in dates /\ \A d \in dates : first <= d
            /\ Range(final_stories[r].article_ids) = {1, 2, 3} => first = 7

\* A record of three articles, the first without published_at, has the
\* earlier of the two dates that are set.
C12_Witness ==
    /\ pc = "done"
    /\ \E r \in DOMAIN final_stories :
          /\ final_stories[r].article_count = 3
          /\ final_stories[r].first_seen_at = 7
          /\ PublishedDates(story_clusters[1]) = {7, 8}
          /\ \E k \in DOMAIN story_clusters[1] : story_clusters[1][k].published_at = 0

\* The representative article of a bucket: the one with the longest full_text,
\* the earliest in bucket order among the longest.
Representative(story_bucket) ==
    story_bucket[CHOOSE k \in DOMAIN story_bucket :
                    \A j \in DOMAIN story_bucket :
                        \/ story_bucket[k].full_text_len > story_bucket[j].full_text_len
                        \/ /\ story_bucket[k].full_text_len = story_bucket[j].full_text_len
                           /\ k <= j]

\* C13. Title selection: the assembler gives each record the canonical_title
\* of its result when the result has one, and otherwise the title of the
\* representative article of the bucket as it stood before the assembler ran;
\* the representative article is the first of the record's articles.
C13_TitleSelection ==
    [][pc = "assemble" =>
          \A r \in DOMAIN final_stories' :
              LET record == final_stories'[r]
                  story_bucket == story_clusters[record.analysis.story_index + 1]
              IN  /\ record.article_ids[1] = Representative(story_bucket).article_id
                  /\ record.canonical_title =
                        IF "canonical_title" \in DOMAIN record.analysis
                        THEN record.analysis.canonical_title
                        ELSE Representative(story_bucket).title]_vars

\* A record took the title of its representative article, the earlier of two
\* articles of the same, longest length, both in its bucket.
C13_Witness ==
    /\ Assembled
    /\ \E r \in DOMAIN final_stories :
          LET record == final_stories[r]
              story_bucket == story_clusters[record.analysis.story_index + 1]
          IN  /\ "canonical_title" \notin DOMAIN record.analysis
              /\ Len(story_bucket) > 1
              /\ story_bucket[1].full_text_len = story_bucket[2].full_text_len
              /\ record.canonical_title = story_bucket[1].title
              /\ story_bucket[1].article_id < story_bucket[2].article_id

\* A record without its story_id.
WithoutStoryId(record) ==
    [f \in DOMAIN record \ {"story_id"} |-> record[f]]

\* C14. Idempotent assembly: running the assembler once more on the same
\* payloads and result mapping, with the buckets as the first run left them,
\* gives the same records in the same order, story_id apart.
C14_IdempotentAssembly ==
    (Assembled /\ all_llm_results # << >>) =>
        LET again == AssembleLoop(1, story_payloads, all_llm_results,
                                  story_clusters, << >>, << >>)
        IN  /\ Len(again.stories) = Len(final_stories)
            /\ \A r \in DOMAIN final_stories :
                  WithoutStoryId(again.stories[r]) = WithoutStoryId(final_stories[r])
            /\ again.clusters = story_clusters

\* The assembler built a record from a bucket it had to reorder and whose
\* longest articles tie.
C14_Witness ==
    /\ Assembled
    /\ \E r \in DOMAIN final_stories :
          /\ final_stories[r].article_count = 3
          /\ final_stories[r].article_ids # << 1, 2, 3 >>
          /\ LET story_bucket == story_clusters[final_stories[r].analysis.story_index + 1]
             IN  story_bucket[1].full_text_len = story_bucket[2].full_text_len

\* C21. Emitted batches: every batch of the list is non-empty, its recorded
\* token count is the sum of the token counts of the payloads it holds, and
\* the batch that was being filled when the payloads ran out is in the list:
\* the last payload is the last of the last batch.
C21_BatchTokenCount ==
    Batched =>
        /\ \A b \in DOMAIN list_of_batches :
              /\ list_of_batches[b].batch # << >>
              /\ list_of_batches[b].batch_tokens
                     = TokensBefore(b, Len(list_of_batches[b].batch) + 1)
        /\ list_of_batches # << >>
        /\ LET final == list_of_batches[Len(list_of_batches)].batch
           IN  final[Len(final)] = story_payloads[Len(story_payloads)]

\* After a batch was closed, the last batch was flushed with two payloads and
\* room to spare.
C21_Witness ==
    /\ pc = "dispatch"
    /\ Len(list_of_batches) > 1
    /\ Len(list_of_batches[Len(list_of_batches)].batch) = 2
    /\ list_of_batches[Len(list_of_batches)].batch_tokens < LLM_MAX_TOKENS_PER_CALL

\* The article ids of bucket b, in bucket order.
IdsOf(b) == [k \in DOMAIN story_clusters[b] |-> story_clusters[b][k].article_id]

\* The articles placed in the buckets before bucket b.
PlacedBefore(b) == UNION { Range(IdsOf(a)) : a \in 1..(b - 1) }

\* C22. Seed-only clustering: the first article of each bucket is its seed;
\* a later article j is in the bucket seeded by i exactly when j was in no
\* earlier bucket and similarity(i, j) >= threshold, whatever its similarity
\* to the other members; the buckets stand in the order of their seeds and
\* their members in input order; similarities 0.9 and 0.1 (and 0.1) give one
\* bucket of two articles and one singleton.
C22_SeedOnlyClustering ==
    pc = "clustered" =>
        /\ UNION { Range(IdsOf(b)) : b \in DOMAIN story_clusters }
               = 1..Len(all_scraped_data)
        /\ \A b \in DOMAIN story_clusters :
              LET i == IdsOf(b)[1]
              IN  /\ i \notin PlacedBefore(b)
                  /\ \A j \in 1..Len(all_scraped_data) :
                        j > i =>
                           (j \in Range(IdsOf(b))
                               <=> /\ j \notin PlacedBefore(b)
                                   /\ similarity_matrix[<< i, j >>]
                                          >= STORY_SIMILARITY_THRESHOLD)
                  /\ \A k \in DOMAIN IdsOf(b) : k > 1 => IdsOf(b)[k - 1] < IdsOf(b)[k]
                  /\ b > 1 => IdsOf(b - 1)[1] < i
        /\ similarity_matrix = (<< 1, 2 >> :> 9) @@ (<< 1, 3 >> :> 1) @@ (<< 2, 3 >> :> 1)
              => /\ IdsOf(1) = << 1, 2 >>
                 /\ IdsOf(2) = << 3 >>
                 /\ Len(story_clusters) = 2

\* Articles 2 and 3 are both similar to the seed 1 but not to each other, and
\* share its bucket.
C22_Witness ==
    /\ pc = "clustered"
    /\ Len(all_scraped_data) = 3
    /\ similarity_matrix[<< 1, 2 >>] = 9
    /\ similarity_matrix[<< 1, 3 >>] = 6
    /\ similarity_matrix[<< 2, 3 >>] = 1
    /\ Len(story_clusters) = 1
    /\ IdsOf(1) = << 1, 2, 3 >>

\* The limit check of the current batch finds the limit exceeded.
LimitExceeded ==
    /\ pc = "limit_check"
    /\ tokens_in_window + list_of_batches[batch_i].batch_tokens > LLM_TPM_LIMIT

\* C23. Wait before dispatch, the recheck: when the engine is invoked for a
\* batch that is within the limit L on its own, the window's token sum plus
\* the batch's token count is within L, the limit having been checked again
\* after the wait.
C23_LimitHoldsWhenSent ==
    (pc = "call" /\ list_of_batches[batch_i].batch_tokens <= LLM_TPM_LIMIT) =>
        tokens_in_window + list_of_batches[batch_i].batch_tokens <= LLM_TPM_LIMIT

\* C24. Eviction exactness: when the limit check is made, the window holds
\* exactly the successful submissions recorded no more than 60 seconds before
\* the clock reading, in the order they were made; the submissions were
\* recorded with non-decreasing timestamps.
C24_EvictionExact ==
    /\ \A j, k \in DOMAIN submitted : j < k => submitted[j].ts <= submitted[k].ts
    /\ pc = "limit_check" =>
          request_history = SelectSeq(submitted, LAMBDA e : clock - e.ts <= 60)

\* At a limit check the older of two submissions was evicted and the younger,
\* made no more than 60 seconds before, was kept.
C24_Witness ==
    /\ pc = "limit_check"
    /\ Len(submitted) = 2
    /\ Len(request_history) = 1
    /\ clock - submitted[1].ts > 60

\* The wait computed at the limit check.
TimeToWait == 60 - (clock - request_history[1].ts) + 1

\* C25. Bounded waiting and termination: a wait that is computed lies between
\* 1 and 61 seconds, a batch for which the limit was exceeded goes to its
\* analysis call after one sleep, and when the dispatch loop has ended the
\* engine was invoked for every batch of the list.
C25_BoundedWaitAllAttempted ==
    /\ (LimitExceeded /\ request_history # << >>) =>
          TimeToWait >= 1 /\ TimeToWait <= 61
    /\ pc \in {"assemble", "crashed"} =>
          Len(engine_calls) = Len(list_of_batches)

\* C27. The limit check never reads an empty window: whenever the limit is
\* found exceeded, the window holds at least one entry.
C27_WaitBranchHasEntry ==
    LimitExceeded => request_history # << >>

\* C28. Window counter consistency: tokens_in_window is the sum of the token
\* counts of the entries of request_history, and is not negative.
C28_CounterIsWindowSum ==
    /\ tokens_in_window
           = SumSeq([k \in DOMAIN request_history |-> request_history[k].tokens])
    /\ tokens_in_window >= 0

\* After a wait the oldest entry is gone, a younger one is still in the
\* window, and the counter holds its tokens.
C28_Witness ==
    /\ pc = "call"
    /\ Len(submitted) = 2
    /\ Len(request_history) = 1
    /\ tokens_in_window = submitted[2].tokens
    /\ tokens_in_window > 0

\* s has no element twice and ascends.
Ascending(s) == \A k \in DOMAIN s : k > 1 => s[k - 1] < s[k]

\* C26. StoryRecord structure: article_ids holds the article_id of each
\* article of the record's bucket exactly once, article_count is the number
\* of articles of the bucket and the length of article_ids, and
\* source_domains holds each source_domain of the bucket once, ascending.
C26_RecordStructure ==
    \A r \in DOMAIN final_stories :
        LET record == final_stories[r]
            story_bucket == story_clusters[record.analysis.story_index + 1]
        IN  /\ Range(record.article_ids) = BucketIds(story_bucket)
            /\ Cardinality(Range(record.article_ids)) = Len(record.article_ids)
            /\ Len(record.article_ids) = Len(story_bucket)
            /\ record.article_count = Len(story_bucket)
            /\ Range(record.source_domains)
                   = { story_bucket[k].source_domain : k \in DOMAIN story_bucket }
            /\ Ascending(record.source_domains)

\* A record of three articles from two domains, two articles sharing one.
C26_Witness ==
    /\ Assembled
    /\ \E r \in DOMAIN final_stories :
          /\ final_stories[r].article_count = 3
          /\ final_stories[r].source_domains = << 1, 2 >>

\* The article ids a record refers to.
Referenced(record) == Range(record.article_ids)

\* C29. Referential integrity: when the output files are written, every
\* article_id of every record of the story file is the article_id of an
\* article of the article file, and no article is referred to by two records.
C29_ReferentialIntegrity ==
    stories_file.exists =>
        /\ articles_file.exists
        /\ \A r \in DOMAIN stories_file.content :
              Referenced(stories_file.content[r])
                  \subseteq BucketIds(articles_file.content)
        /\ \A r, q \in DOMAIN stories_file.content :
              r # q => Referenced(stories_file.content[r])
                           \cap Referenced(stories_file.content[q]) = {}

\* The files were written with two records, one of them of two articles, and
\* the three articles.
C29_Witness ==
    /\ pc = "done"
    /\ stories_file.exists
    /\ Len(stories_file.content) = 2
    /\ \E r \in DOMAIN stories_file.content :
          Len(stories_file.content[r].article_ids) = 2
    /\ Len(articles_file.content) = 3

\* C30 as stated. Assembly does not mutate its input: the assembler leaves
\* every bucket as the clusterer produced it.
C30_BucketsUnchanged ==
    [][pc = "assemble" => story_clusters' = story_clusters]_vars

\* The position of article a in a bucket.
PlaceIn(story_bucket, a) ==
    CHOOSE k \in DOMAIN story_bucket : story_bucket[k].article_id = a.article_id

\* after holds the articles of before, longest full_text first, articles of
\* equal length in the order they had in before.
StablySorted(before, after) ==
    /\ Len(after) = Len(before)
    /\ BucketIds(after) = BucketIds(before)
    /\ \A j, k \in DOMAIN after :
          j < k =>
             \/ after[j].full_text_len > after[k].full_text_len
             \/ /\ after[j].full_text_len = after[k].full_text_len
                /\ PlaceIn(before, after[j]) < PlaceIn(before, after[k])

\* C30 as amended. The assembler keeps the articles of every bucket; it sorts
\* the bucket of a story that has a result in place, longest full_text first
\* and stably, and leaves the other buckets as they were; the article list of
\* the run holds each bucket's articles in the order the bucket had when the
\* run began. Without any result it does nothing.
C30_BucketsSortedInPlace ==
    [][pc = "assemble" =>
          IF all_llm_results = << >>
          THEN story_clusters' = story_clusters /\ final_articles' = final_articles
          ELSE /\ final_articles' = Flatten(story_clusters)
               /\ DOMAIN story_clusters' = DOMAIN story_clusters
               /\ \A k \in DOMAIN story_payloads :
                     LET b == story_payloads[k].original_bucket
                     IN  IF story_payloads[k].story_index \in DOMAIN all_llm_results
                         THEN StablySorted(story_clusters[b], story_clusters'[b])
                         ELSE story_clusters'[b] = story_clusters[b]]_vars

\* The assembler has reordered a bucket of three articles, and the article
\* list holds them in the order they had before.
C30_Witness ==
    /\ Assembled
    /\ Len(story_clusters) = 1
    /\ Len(story_clusters[1]) = 3
    /\ ~ Ascending(IdsOf(1))
    /\ final_articles = all_scraped_data

(* --------------------------------- C31 -------------------------------- *)

\* The tasks that hold a permit of the semaphore.
Holders == { t \in DOMAIN task_pc :
               task_pc[t] \in {"new_page", "route", "fetch", "close"} }

\* What task t contributed to the result of the function it runs in.
Contribution(t) ==
    IF fetched[t] = << >> THEN << >>
    ELSE IF pc \in {"run_resolver", "resolved"}
         THEN resolve_url(fetched[t][1])
         ELSE scrape_single_page(t, fetched[t][1])

\* C31 (bounded fetch concurrency): in run_resolver and run_fallback_scraper,
\* at every moment at most MAX_CONCURRENT_BROWSERS pages are open, the
\* permits taken from the semaphore are exactly those of the tasks inside
\* the `async with` block, and once the function has returned every task
\* has finished, every permit is back, no page is open, and the result is
\* made of the contributions of the tasks whose fetch succeeded and of
\* nothing else: the resolver returns each resolved URL once, the fallback
\* scraper one record for each page scraped and none for a failed one.
C31_BoundedFetch ==
    /\ Cardinality(open_pages) <= MAX_CONCURRENT_BROWSERS
    /\ open_pages \subseteq Holders
    /\ semaphore >= 0
    /\ semaphore + Cardinality(Holders) = MAX_CONCURRENT_BROWSERS
    /\ pc \in {"resolved", "scraped"} =>
          /\ \A t \in DOMAIN task_pc : task_pc[t] = "done"
          /\ semaphore = MAX_CONCURRENT_BROWSERS
          /\ open_pages = {}
    /\ pc = "resolved" =>
          /\ Range(returned) = UNION { Range(Contribution(t)) : t \in DOMAIN task_pc }
          /\ \A j, k \in DOMAIN returned : returned[j] = returned[k] => j = k
    /\ pc = "scraped" =>
          \A t \in DOMAIN task_pc :
             Cardinality({ k \in DOMAIN returned : returned[k].url = t })
                = Len(Contribution(t))
    /\ pc = "scraped" =>
          \A k \in DOMAIN returned : << returned[k] >> = Contribution(returned[k].url)

\* More URLs than permits; the resolver has returned after a time-out on one
\* URL and the same final URL for two others.
C31_Witness ==
    /\ pc = "resolved"
    /\ Len(task_pc) > MAX_CONCURRENT_BROWSERS
    /\ \E t \in DOMAIN task_pc : fetched[t] = << "PlaywrightTimeoutError" >>
    /\ \E s, t \in DOMAIN task_pc : s # t /\ fetched[s] = fetched[t]
                                    /\ Contribution(s) # << >>
    /\ Len(returned) = 1

(* --------------------------------- C32 -------------------------------- *)

IsFailure(item) == "failed_url" \in DOMAIN item

\* The failed URLs of the items in s, in order.
FailedUrls(s) ==
    LET failures == SelectSeq(s, IsFailure)
    IN  [k \in DOMAIN failures |-> failures[k].failed_url]

\* The items of s that are no failure items, in order.
Passed(s) == SelectSeq(s, LAMBDA item : ~ IsFailure(item))

\* C32 (FallbackUrlPipeline routing): from open_spider on, the fallback file
\* exists and holds exactly the failed URLs of the items processed so far in
\* this crawl, one line each in processing order and nothing of an earlier
\* crawl, and the feed export has received exactly the other items,
\* unchanged and in order; the file is open between open_spider and
\* close_spider, and at the close every yielded item has been processed.
C32_FallbackRouting ==
    pc \in {"crawl", "closed"} =>
       /\ fallback_file.exists
       /\ fallback_file.content = FailedUrls(processed)
       /\ feed = Passed(processed)
       /\ file_open = (pc = "crawl")
       /\ pc = "closed" => in_flight = << >> /\ responses = {}

\* The crawl is over: a failure item was processed, then an article.
C32_Witness ==
    /\ pc = "closed"
    /\ Len(processed) = 2
    /\ Len(feed) = 1
    /\ fallback_file.content = << processed[1].failed_url >>
    /\ ~ IsFailure(processed[2])

(* --------------------------------- C33 -------------------------------- *)

\* The precision strategy gave an article for the response.
PrecisionSucceeds(response) ==
    /\ response.container
    /\ ~ response.precision.raised
    /\ response.precision.len >= MIN_TEXT_LENGTH

====
